---- MODULE Spec2Model ----
(***************************************************************************)
(* A model of src/bootstrap/check.rs: the "check"-based build steps Std,   *)
(* Rustc and the three tool steps generated by tool_check_step!, run by    *)
(* the builder's memoizing `ensure`.                                       *)
(*                                                                         *)
(* One behaviour is a sequence of invocations of the build program.  Each  *)
(* invocation fixes a subcommand, issues some top-level requests           *)
(* (make_run), and every request runs the step's `run` to completion,      *)
(* dependencies first.  Stamp files and the sysroot persist from one       *)
(* invocation to the next; the engine's cache and the log do not.          *)
(***************************************************************************)
EXTENDS Naturals, Sequences, FiniteSets

VARIABLES
    config,   \* what the builder's configuration makes std_cargo and
              \* rustc_cargo add to a command
    cmd,      \* builder.config.cmd, the Subcommand of this invocation
    full,     \* the full-coverage modifier the operator asked for
    run,      \* number of the current invocation (0: none yet)
    phase,    \* "idle" | "running" | "failed" (the process stopped hard)
    nreq,     \* top-level requests issued so far, over all invocations
    cache,    \* the engine's memo: steps finished in this invocation
    stack,    \* call stack of `run` frames, innermost last
    stamps,   \* stamp files on disk: path -> the build that wrote it
    sysroot,  \* files in the sysroot: <<dir, name>> -> content
    log       \* what this invocation did, in order

vars == <<config, cmd, full, run, phase, nreq, cache, stack, stamps, sysroot, log>>

(***************************************************************************)
(* Bounds of the model.                                                    *)
(***************************************************************************)
\* Top-level requests over all the invocations of a behaviour.
MaxRequests == 2

(***************************************************************************)
(* The steps.                                                              *)
(***************************************************************************)
Tools == {"Rustdoc", "Clippy", "Bootstrap"}
Units == {"Std", "Rustc"} \cup Tools

\* The configuration: the build machine A is the one host; B is a target
\* the library is cross-compiled for.
Targets == {"A", "B"}
Hosts == {"A"}
ConfigBuild == "A"

Steps == [unit : Units, target : Targets]

Step(u, t) == [unit |-> u, target |-> t]

\* const ONLY_HOSTS: true for Rustc and for every tool step, not for Std.
ONLY_HOSTS(u) == u # "Std"

\* builder.compiler(0, builder.config.build)
Compiler == [stage |-> 0, host |-> ConfigBuild]

(***************************************************************************)
(* Subcommand, Kind and the command line.                                  *)
(***************************************************************************)
Kinds == {"Check", "Clippy", "Fix"}

\* Only the Check variant of Subcommand has an all_targets field.
Subcommands ==
    [sub : {"Check"}, all_targets : BOOLEAN] \cup [sub : {"Clippy", "Fix"}]

\* The Subcommand built from the operator's verb and full-coverage modifier.
MkSubcommand(verb, fullcov) ==
    IF verb = "Check" THEN [sub |-> "Check", all_targets |-> fullcov]
    ELSE [sub |-> verb]

\* builder.kind
KindOf(c) == c.sub

\* A slip: the pattern written as Subcommand::Check { .. }, the field ignored.
AllTargetsAnyCheck(c) == c.sub = "Check"

\* if let Subcommand::Check { all_targets: true, .. } = builder.config.cmd
AllTargets(c) == c.sub = "Check" /\ c.all_targets

\* fn args(kind)
args(kind) ==
    IF kind = "Clippy" THEN <<"--", "--cap-lints", "warn">> ELSE <<>>

\* fn cargo_subcommand(kind)
cargo_subcommand(kind) ==
    CASE kind = "Check" -> "check"
      [] kind = "Clippy" -> "clippy"
      [] kind = "Fix" -> "fix"

\* builder.in_tree_crates(root): the ordered crate set of a classification.
in_tree_crates(root) ==
    IF root = "test" THEN <<"core", "std", "test">>
    ELSE IF root = "rustc-main" THEN <<"rustc_driver", "rustc-main">>
    ELSE <<>>

\* builder.cargo(compiler, mode, source_type, target, subcommand)
builder_cargo(mode, target, sub) ==
    [mode |-> mode, target |-> target, sub |-> sub, argv |-> <<>>]

\* The configurations of the builder: the arguments std_cargo and rustc_cargo
\* append to the command they are given (features, manifest path; none of
\* them a per-crate selector), here none or one opaque argument each.
Configs ==
    {[std_args |-> <<>>, rustc_args |-> <<>>],
     [std_args |-> <<"<std_cargo>">>, rustc_args |-> <<"<rustc_cargo>">>]}

\* std_cargo(builder, target, stage, &mut cargo)
std_cargo(cargo, target, stage) ==
    [cargo EXCEPT !.argv = @ \o config.std_args]

\* rustc_cargo(builder, &mut cargo, target)
rustc_cargo(cargo, target) ==
    [cargo EXCEPT !.argv = @ \o config.rustc_args]

\* cargo.arg(a)
arg(cargo, a) == [cargo EXCEPT !.argv = Append(@, a)]

\* for krate in crates { cargo.arg("-p").arg(krate.name); }
RECURSIVE PackageArgs(_, _)
PackageArgs(cargo, crates) ==
    IF crates = <<>> THEN cargo
    ELSE PackageArgs(arg(arg(cargo, "-p"), Head(crates)), Tail(crates))

(***************************************************************************)
(* Paths.                                                                  *)
(***************************************************************************)
UpperCase == <<"A","B","C","D","E","F","G","H","I","J","K","L","M",
               "N","O","P","Q","R","S","T","U","V","W","X","Y","Z">>
LowerCase == <<"a","b","c","d","e","f","g","h","i","j","k","l","m",
               "n","o","p","q","r","s","t","u","v","w","x","y","z">>

\* char::to_lowercase on ASCII
LowerChar(c) ==
    IF \E i \in DOMAIN UpperCase : UpperCase[i] = c
    THEN LowerCase[CHOOSE i \in DOMAIN UpperCase : UpperCase[i] = c]
    ELSE c

\* str::to_lowercase
to_lowercase(s) == [i \in 1..Len(s) |-> LowerChar(s[i])]

\* stringify!($name) for the three tool_check_step! instantiations
stringify(u) ==
    CASE u = "Rustdoc" -> <<"R","u","s","t","d","o","c">>
      [] u = "Clippy" -> <<"C","l","i","p","p","y">>
      [] u = "Bootstrap" -> <<"B","o","o","t","s","t","r","a","p">>

\* builder.cargo_out(compiler, mode, target)
cargo_out(compiler, mode, target) ==
    <<"out", compiler.host, compiler.stage, mode, target>>

\* PathBuf::join
join(dir, file) == [dir |-> dir, file |-> file]

\* builder.sysroot_libdir(compiler, target)
sysroot_libdir(compiler, target) ==
    <<"sysroot", compiler.host, compiler.stage, target, "lib">>

\* ".libstd-check.stamp"
LibstdStampName ==
    <<".","l","i","b","s","t","d","-","c","h","e","c","k",".","s","t","a","m","p">>
\* A slip: the test stamp's name without its "-test".
LibstdTestStampNameSansTest ==
    <<".","l","i","b","s","t","d","-","c","h","e","c","k",".","s","t","a","m","p">>
\* ".libstd-check-test.stamp"
LibstdTestStampName ==
    <<".","l","i","b","s","t","d","-","c","h","e","c","k","-","t","e","s","t",
      ".","s","t","a","m","p">>
\* ".librustc-check.stamp"
LibrustcStampName ==
    <<".","l","i","b","r","u","s","t","c","-","c","h","e","c","k",
      ".","s","t","a","m","p">>
\* "-check.stamp"
CheckStampSuffix == <<"-","c","h","e","c","k",".","s","t","a","m","p">>

libstd_stamp(compiler, target) ==
    join(cargo_out(compiler, "Std", target), LibstdStampName)

libstd_test_stamp(compiler, target) ==
    join(cargo_out(compiler, "Std", target), LibstdTestStampName)

librustc_stamp(compiler, target) ==
    join(cargo_out(compiler, "Rustc", target), LibrustcStampName)

\* A slip: a stamp name that leaves the tool's name out.
ToolStampNameShared(u) == <<".", "t", "o", "o", "l">> \o CheckStampSuffix

\* format!(".{}-check.stamp", stringify!($name).to_lowercase()), for each
\* instantiation of the macro
ToolStampNames ==
    [u \in Tools |-> <<".">> \o to_lowercase(stringify(u)) \o CheckStampSuffix]

ToolStampName(u) == ToolStampNames[u]

\* the tool step's nested fn stamp
stamp(u, compiler, target) ==
    join(cargo_out(compiler, "ToolRustc", target), ToolStampName(u))

\* The stamp a step's first (only, for Rustc and tools) invocation is given.
StampOf(s) ==
    CASE s.unit = "Std" -> libstd_stamp(Compiler, s.target)
      [] s.unit = "Rustc" -> librustc_stamp(Compiler, s.target)
      [] OTHER -> stamp(s.unit, Compiler, s.target)

(***************************************************************************)
(* The collaborators: run_cargo, add_to_sysroot, ensure.                   *)
(***************************************************************************)
\* The build a compile invocation performs: which step, which pass, and in
\* which invocation of the program.
Build(s, pass) == [step |-> s, pass |-> pass, run |-> run]

\* The artifact files a build leaves in its output directory, as its stamp
\* enumerates them: name -> content.
Artifacts(b) == {[name |-> <<b.step.unit, b.step.target>>, content |-> b]}

\* Writing file p with content v into a partial function.
Put(f, p, v) == [q \in DOMAIN f \cup {p} |-> IF q = p THEN v ELSE f[q]]

\* add_to_sysroot's copy of the artifacts a stamp enumerates into dirs.
RECURSIVE CopyInto(_, _, _)
CopyInto(root, files, dirs) ==
    IF dirs = {} THEN root
    ELSE LET d == CHOOSE x \in dirs : TRUE
             one == CHOOSE a \in files : TRUE
         IN CopyInto(Put(root, <<d, one.name>>, one.content), files, dirs \ {d})

Top == stack[Len(stack)]

SetTopPc(pc) == [stack EXCEPT ![Len(stack)].pc = pc]

Running == phase = "running" /\ stack # <<>>

\* run_cargo(builder, cargo, tail_args, stamp, vec![], true): on success the
\* stamp is (re)written with the build; on failure the process stops hard
\* and no file is touched.
run_cargo(cargo, tail, path, pass, ok, nextpc) ==
    /\ log' = Append(log, [ev |-> "cargo", step |-> Top.step, pass |-> pass,
                           ok |-> ok, sub |-> cargo.sub, argv |-> cargo.argv,
                           tail |-> tail, stamp |-> path])
    /\ IF ok
       THEN /\ stamps' = Put(stamps, path, Build(Top.step, pass))
            /\ stack' = SetTopPc(nextpc)
            /\ phase' = phase
       ELSE /\ stamps' = stamps
            /\ stack' = stack
            /\ phase' = "failed"
    /\ UNCHANGED <<config, cmd, full, run, nreq, cache, sysroot>>

\* add_to_sysroot(builder, libdir, hostdir, stamp): copies every artifact the
\* stamp enumerates into both directories; a copy that fails stops the
\* process hard, with `copied` of the directories already written.
add_to_sysroot(libdir, hostdir, path, ok, copied, nextpc) ==
    /\ path \in DOMAIN stamps
    /\ log' = Append(log, [ev |-> "publish", step |-> Top.step, ok |-> ok,
                           libdir |-> libdir, hostdir |-> hostdir,
                           stamp |-> path])
    /\ IF ok
       THEN /\ sysroot' = CopyInto(sysroot, Artifacts(stamps[path]),
                                   {libdir, hostdir})
            /\ stack' = SetTopPc(nextpc)
            /\ phase' = phase
       ELSE /\ sysroot' = CopyInto(sysroot, Artifacts(stamps[path]), copied)
            /\ stack' = stack
            /\ phase' = "failed"
    /\ UNCHANGED <<config, cmd, full, run, nreq, cache, stamps>>

\* The first position of a step's `run`.
EntryPc(u) == IF u = "Std" THEN "cargo" ELSE "ensure"

\* builder.ensure(step) called with call stack stk: a step already finished
\* in this invocation is not run again; another is run now.
ensure(s, stk) ==
    /\ stack' = IF s \in cache THEN stk
                ELSE Append(stk, [step |-> s, pc |-> EntryPc(s.unit)])
    /\ log' = Append(log, [ev |-> "ensure", step |-> s, hit |-> s \in cache,
                           depth |-> Len(stk)])

(***************************************************************************)
(* The program.                                                            *)
(***************************************************************************)
Init ==
    /\ config \in Configs
    /\ cmd = [sub |-> "Check", all_targets |-> FALSE]
    /\ full = FALSE
    /\ run = 0
    /\ phase = "idle"
    /\ nreq = 0
    /\ cache = {}
    /\ stack = <<>>
    /\ stamps = <<>>
    /\ sysroot = <<>>
    /\ log = <<>>

\* A new invocation of the program: a verb, the full-coverage modifier, an
\* empty engine cache.  The files of earlier invocations stay.
StartRun ==
    /\ phase \in {"idle", "failed"}
    /\ nreq < MaxRequests
    /\ \E verb \in Kinds, fullcov \in BOOLEAN :
          /\ cmd' = MkSubcommand(verb, fullcov)
          /\ full' = fullcov
    /\ run' = run + 1
    /\ phase' = "running"
    /\ cache' = {}
    /\ stack' = <<>>
    /\ log' = <<>>
    /\ UNCHANGED <<config, nreq, stamps, sysroot>>

\* Std::make_run, Rustc::make_run, $name::make_run
make_run(s) ==
    /\ phase = "running"
    /\ stack = <<>>
    /\ nreq < MaxRequests
    /\ ONLY_HOSTS(s.unit) => s.target \in Hosts
    /\ nreq' = nreq + 1
    /\ ensure(s, stack)
    /\ UNCHANGED <<config, cmd, full, run, phase, cache, stamps, sysroot>>

MakeRun == \E s \in Steps : make_run(s)

\* The program exits once its requests are served.
EndRun ==
    /\ phase = "running"
    /\ stack = <<>>
    /\ log # <<>>
    /\ phase' = "idle"
    /\ UNCHANGED <<config, cmd, full, run, nreq, cache, stack, stamps, sysroot, log>>

\* A step's `run` returns into ensure, which records the step as done.
Return ==
    /\ Running
    /\ Top.pc = "ret"
    /\ cache' = cache \cup {Top.step}
    /\ stack' = SubSeq(stack, 1, Len(stack) - 1)
    /\ UNCHANGED <<config, cmd, full, run, phase, nreq, stamps, sysroot, log>>

----
\* A slip: the target's library directory taken for the host.
PublishLibdirOfHost(t) == sysroot_libdir(Compiler, Compiler.host)

\* let libdir = builder.sysroot_libdir(compiler, target);
PublishLibdir(t) == sysroot_libdir(Compiler, t)

\* A slip: the host's library directory taken for the step's target.
PublishHostdirOfTarget == sysroot_libdir(Compiler, Top.step.target)

\* let hostdir = builder.sysroot_libdir(compiler, compiler.host);
PublishHostdir == sysroot_libdir(Compiler, Compiler.host)

\* How far a copy that fails may have got: short of every directory.
PartialCopies(t) ==
    {{}} \cup (IF PublishLibdir(t) # PublishHostdir
               THEN {{PublishLibdir(t)}}
               ELSE {})

\* A slip: the second invocation recorded under the first one's stamp.
StdSecondStampReused(t) == libstd_stamp(Compiler, t)

\* &libstd_test_stamp(builder, compiler, target), given to the second run_cargo
StdSecondStamp(t) == libstd_test_stamp(Compiler, t)

\* A slip: the compiler step publishing from the library's stamp.
RustcPublishStampOfStd(t) == libstd_stamp(Compiler, t)

\* &librustc_stamp(builder, compiler, target), given to add_to_sysroot
RustcPublishStamp(t) == librustc_stamp(Compiler, t)

\* A slip: a tool step publishing from the compiler's stamp.
ToolPublishStampOfRustc(u, t) == librustc_stamp(Compiler, t)

\* &stamp(builder, compiler, target), given to add_to_sysroot
ToolPublishStamp(u, t) == stamp(u, Compiler, t)

\* Std::run, the first invocation
StdFirstCargo ==
    std_cargo(builder_cargo("Std", Top.step.target,
                            cargo_subcommand(KindOf(cmd))),
              Top.step.target, Compiler.stage)

\* A slip: the all-targets invocation issued right after the first one,
\* before the first one's artifacts are in the sysroot.
StdAfterFirstCargoMerged == IF AllTargets(cmd) THEN "cargo2" ELSE "publish"

\* Where Std::run goes once the first invocation has succeeded.
StdAfterFirstCargo == "publish"

\* A slip: the library's compile waits for the compiler of its target, a
\* later unit of the chain.
StdCargoAwaitingRustc ==
    /\ Running
    /\ Top.step.unit = "Std"
    /\ Top.pc = "cargo"
    /\ Step("Rustc", Top.step.target) \in cache
    /\ \E ok \in BOOLEAN :
          run_cargo(StdFirstCargo, args(KindOf(cmd)),
                    libstd_stamp(Compiler, Top.step.target), 1, ok,
                    StdAfterFirstCargo)

\* Std::run, the first invocation and what follows it
StdCargo ==
    /\ Running
    /\ Top.step.unit = "Std"
    /\ Top.pc = "cargo"
    /\ \E ok \in BOOLEAN :
          run_cargo(StdFirstCargo, args(KindOf(cmd)),
                    libstd_stamp(Compiler, Top.step.target), 1, ok,
                    StdAfterFirstCargo)

\* A slip: Std::run making its second invocation whatever the subcommand.
StdAfterPublishAlwaysSecond == "cargo2"

\* A slip: Std::run without its second invocation.
StdAfterPublishNoSecond == "ret"

\* Where Std::run goes once its artifacts are in the sysroot.
StdAfterPublish == IF AllTargets(cmd) THEN "cargo2" ELSE "ret"

\* Std::run, add_to_sysroot
StdPublish ==
    /\ Running
    /\ Top.step.unit = "Std"
    /\ Top.pc = "publish"
    /\ \E ok \in BOOLEAN :
       \E copied \in PartialCopies(Top.step.target) :
          /\ ok => copied = {}
          /\ add_to_sysroot(PublishLibdir(Top.step.target), PublishHostdir,
                            libstd_stamp(Compiler, Top.step.target),
                            ok, copied, StdAfterPublish)

\* A slip: the second invocation selecting the compiler's crate set.
StdSecondCargoOfRustc ==
    PackageArgs(
        arg(std_cargo(builder_cargo("Std", Top.step.target,
                                    cargo_subcommand(KindOf(cmd))),
                      Top.step.target, Compiler.stage),
            "--all-targets"),
        in_tree_crates("rustc-main"))

\* Std::run, the second invocation's command line
StdSecondCargo ==
    PackageArgs(
        arg(std_cargo(builder_cargo("Std", Top.step.target,
                                    cargo_subcommand(KindOf(cmd))),
                      Top.step.target, Compiler.stage),
            "--all-targets"),
        in_tree_crates("test"))

\* A slip: the second invocation followed by an add_to_sysroot of its own,
\* from the test stamp.
StdSecondPassPublishing ==
    /\ Running
    /\ Top.step.unit = "Std"
    /\ Top.pc = "cargo2"
    /\ \E ok \in BOOLEAN :
          /\ log' = Append(log, [ev |-> "cargo", step |-> Top.step, pass |-> 2,
                                 ok |-> ok, sub |-> StdSecondCargo.sub,
                                 argv |-> StdSecondCargo.argv,
                                 tail |-> args(KindOf(cmd)),
                                 stamp |-> StdSecondStamp(Top.step.target)])
          /\ IF ok
             THEN /\ stamps' = Put(stamps, StdSecondStamp(Top.step.target),
                                   Build(Top.step, 2))
                  /\ sysroot' = CopyInto(sysroot, Artifacts(Build(Top.step, 2)),
                                         {PublishLibdir(Top.step.target),
                                          PublishHostdir})
                  /\ stack' = SetTopPc("ret")
                  /\ phase' = phase
             ELSE /\ stamps' = stamps
                  /\ sysroot' = sysroot
                  /\ stack' = stack
                  /\ phase' = "failed"
    /\ UNCHANGED <<config, cmd, full, run, nreq, cache>>

\* A slip: the second invocation's failure not stopping the step.
StdSecondPassFailureIgnored ==
    /\ Running
    /\ Top.step.unit = "Std"
    /\ Top.pc = "cargo2"
    /\ \E ok \in BOOLEAN :
          /\ log' = Append(log, [ev |-> "cargo", step |-> Top.step, pass |-> 2,
                                 ok |-> ok, sub |-> StdSecondCargo.sub,
                                 argv |-> StdSecondCargo.argv,
                                 tail |-> args(KindOf(cmd)),
                                 stamp |-> StdSecondStamp(Top.step.target)])
          /\ stamps' = IF ok
                       THEN Put(stamps, StdSecondStamp(Top.step.target),
                                Build(Top.step, 2))
                       ELSE stamps
    /\ stack' = SetTopPc("ret")
    /\ UNCHANGED <<config, cmd, full, run, phase, nreq, cache, sysroot>>

\* Std::run, the second invocation
StdSecondPass ==
    /\ Running
    /\ Top.step.unit = "Std"
    /\ Top.pc = "cargo2"
    /\ \E ok \in BOOLEAN :
          run_cargo(StdSecondCargo, args(KindOf(cmd)),
                    StdSecondStamp(Top.step.target), 2, ok, "ret")

----
\* A slip: Rustc::run without its builder.ensure(Std { target }).
RustcEnsureSkipped ==
    /\ Running
    /\ Top.step.unit = "Rustc"
    /\ Top.pc = "ensure"
    /\ stack' = SetTopPc("cargo")
    /\ UNCHANGED <<config, cmd, full, run, phase, nreq, cache, stamps, sysroot, log>>

\* Rustc::run: builder.ensure(Std { target })
RustcEnsure ==
    /\ Running
    /\ Top.step.unit = "Rustc"
    /\ Top.pc = "ensure"
    /\ ensure(Step("Std", Top.step.target), SetTopPc("cargo"))
    /\ UNCHANGED <<config, cmd, full, run, phase, nreq, cache, stamps, sysroot>>

\* A slip: the compiler's invocation selecting the library's crate set.
RustcCargoCmdOfTest ==
    LET c0 == rustc_cargo(builder_cargo("Rustc", Top.step.target,
                                        cargo_subcommand(KindOf(cmd))),
                          Top.step.target)
        c1 == IF AllTargets(cmd) THEN arg(c0, "--all-targets") ELSE c0
    IN PackageArgs(c1, in_tree_crates("test"))

\* Rustc::run, the command line
RustcCargoCmd ==
    LET c0 == rustc_cargo(builder_cargo("Rustc", Top.step.target,
                                        cargo_subcommand(KindOf(cmd))),
                          Top.step.target)
        c1 == IF AllTargets(cmd) THEN arg(c0, "--all-targets") ELSE c0
    IN PackageArgs(c1, in_tree_crates("rustc-main"))

\* Rustc::run, run_cargo
RustcCargo ==
    /\ Running
    /\ Top.step.unit = "Rustc"
    /\ Top.pc = "cargo"
    /\ \E ok \in BOOLEAN :
          run_cargo(RustcCargoCmd, args(KindOf(cmd)),
                    librustc_stamp(Compiler, Top.step.target), 1, ok, "publish")

\* Rustc::run, add_to_sysroot
RustcPublish ==
    /\ Running
    /\ Top.step.unit = "Rustc"
    /\ Top.pc = "publish"
    /\ \E ok \in BOOLEAN :
       \E copied \in PartialCopies(Top.step.target) :
          /\ ok => copied = {}
          /\ add_to_sysroot(PublishLibdir(Top.step.target), PublishHostdir,
                            RustcPublishStamp(Top.step.target),
                            ok, copied, "ret")

----
\* A slip: a tool step that depends on the library only.
ToolEnsureStd ==
    /\ Running
    /\ Top.step.unit \in Tools
    /\ Top.pc = "ensure"
    /\ ensure(Step("Std", Top.step.target), SetTopPc("cargo"))
    /\ UNCHANGED <<config, cmd, full, run, phase, nreq, cache, stamps, sysroot>>

\* A slip: a tool step that runs the compiler step itself, past the engine.
ToolEnsureDirect ==
    /\ Running
    /\ Top.step.unit \in Tools
    /\ Top.pc = "ensure"
    /\ stack' = Append(SetTopPc("cargo"),
                       [step |-> Step("Rustc", Top.step.target),
                        pc |-> EntryPc("Rustc")])
    /\ log' = Append(log, [ev |-> "ensure",
                           step |-> Step("Rustc", Top.step.target),
                           hit |-> FALSE, depth |-> Len(stack)])
    /\ UNCHANGED <<config, cmd, full, run, phase, nreq, cache, stamps, sysroot>>

\* tool_check_step!: builder.ensure(Rustc { target })
ToolEnsure ==
    /\ Running
    /\ Top.step.unit \in Tools
    /\ Top.pc = "ensure"
    /\ ensure(Step("Rustc", Top.step.target), SetTopPc("cargo"))
    /\ UNCHANGED <<config, cmd, full, run, phase, nreq, cache, stamps, sysroot>>

\* tool_check_step!, the command line
ToolCargoCmd ==
    LET c0 == builder_cargo("ToolRustc", Top.step.target,
                            cargo_subcommand(KindOf(cmd)))
    IN IF AllTargets(cmd) THEN arg(c0, "--all-targets") ELSE c0

\* tool_check_step!, run_cargo
ToolCargo ==
    /\ Running
    /\ Top.step.unit \in Tools
    /\ Top.pc = "cargo"
    /\ \E ok \in BOOLEAN :
          run_cargo(ToolCargoCmd, args(KindOf(cmd)),
                    stamp(Top.step.unit, Compiler, Top.step.target),
                    1, ok, "publish")

\* tool_check_step!, add_to_sysroot
ToolPublish ==
    /\ Running
    /\ Top.step.unit \in Tools
    /\ Top.pc = "publish"
    /\ \E ok \in BOOLEAN :
       \E copied \in PartialCopies(Top.step.target) :
          /\ ok => copied = {}
          /\ add_to_sysroot(PublishLibdir(Top.step.target), PublishHostdir,
                            ToolPublishStamp(Top.step.unit, Top.step.target),
                            ok, copied, "ret")

----
Next ==
    \/ StartRun
    \/ MakeRun
    \/ EndRun
    \/ Return
    \/ StdCargo
    \/ StdPublish
    \/ StdSecondPass
    \/ RustcEnsure
    \/ RustcCargo
    \/ RustcPublish
    \/ ToolEnsure
    \/ ToolCargo
    \/ ToolPublish

Spec == Init /\ [][Next]_vars

\* The steps of a request: each is one call of the running step, and the
\* program is sequential, so the call at the top of the stack is the one
\* that proceeds.
RunStep ==
    \/ Return
    \/ StdCargo
    \/ StdPublish
    \/ StdSecondPass
    \/ RustcEnsure
    \/ RustcCargo
    \/ RustcPublish
    \/ ToolEnsure
    \/ ToolCargo
    \/ ToolPublish

\* Whether a step ends does not depend on the arguments of its commands:
\* the fair specification starts from the configuration in which std_cargo
\* and rustc_cargo do append arguments.
FairInit == Init /\ config.std_args # <<>>

\* Every compile invocation and every copy returns.
FairSpec == FairInit /\ [][Next]_vars /\ WF_vars(RunStep)

(***************************************************************************)
(* What the log of the current invocation says.                            *)
(***************************************************************************)
Idx == 1..Len(log)

\* Event i is a compile invocation of step s, pass p.
CargoAt(i, s, p) ==
    /\ log[i].ev = "cargo"
    /\ log[i].step = s
    /\ log[i].pass = p

CargoOkAt(i, s, p) == CargoAt(i, s, p) /\ log[i].ok

CargoFailedAt(i, s) ==
    /\ log[i].ev = "cargo"
    /\ log[i].step = s
    /\ ~log[i].ok

\* Event i is the publish of step s.
PublishAt(i, s) == log[i].ev = "publish" /\ log[i].step = s

PublishOkAt(i, s) == PublishAt(i, s) /\ log[i].ok

\* Step s invoked its compiler or its publish in this invocation.
Acted(s) ==
    \E i \in Idx : log[i].ev \in {"cargo", "publish"} /\ log[i].step = s

\* The steps that depend on step s, directly or through the compiler.
Dependents(s) ==
    CASE s.unit = "Std" ->
            {Step(u, s.target) : u \in {"Rustc"} \cup Tools}
      [] s.unit = "Rustc" -> {Step(u, s.target) : u \in Tools}
      [] OTHER -> {}

(***************************************************************************)
(* C1. In every invocation and for every target, the compiler step's       *)
(* compile invocation comes after a completed publish of the library step  *)
(* for that target, and a tool step's compile invocation comes after a     *)
(* completed publish of the compiler step for that target.                 *)
(***************************************************************************)
C1_Ordering ==
    \A i \in Idx :
        log[i].ev = "cargo" =>
           /\ log[i].step.unit = "Rustc" =>
                 \E j \in 1..(i - 1) :
                    PublishOkAt(j, Step("Std", log[i].step.target))
           /\ log[i].step.unit \in Tools =>
                 \E j \in 1..(i - 1) :
                    PublishOkAt(j, Step("Rustc", log[i].step.target))

\* A tool's compile invocation has run, so the compiler's and the library's
\* have too.
C1_Witness ==
    \E i \in Idx : \E t \in Targets : \E u \in Tools :
        /\ CargoAt(i, Step(u, t), 1)
        /\ \E j \in 1..(i - 1) : CargoAt(j, Step("Rustc", t), 1)

(***************************************************************************)
(* C2. Within an invocation, when a compile invocation of a step fails, no *)
(* step that depends on it invokes its compiler or its publish: not the    *)
(* tools of the target when the compiler step's fails, not the compiler    *)
(* step nor the tools when the library step's fails.                       *)
(***************************************************************************)
C2_FailureStopsDependents ==
    \A i \in Idx :
        (log[i].ev = "cargo" /\ ~log[i].ok) =>
           \A d \in Dependents(log[i].step) : ~Acted(d)

\* The compiler step's compile invocation failed under a tool's request.
C2_Witness ==
    \E i \in Idx : \E t \in Targets :
        /\ CargoFailedAt(i, Step("Rustc", t))
        /\ \E k \in 1..Len(stack) : stack[k].step.unit \in Tools
        /\ phase = "failed"

(***************************************************************************)
(* C3. The library step's all-targets invocation comes after the first     *)
(* invocation has succeeded and its publish has completed; the first       *)
(* invocation is not an all-targets one.                                   *)
(***************************************************************************)
C3_TwoPassOrder ==
    \A i \in Idx :
        (log[i].ev = "cargo" /\ log[i].pass = 2) =>
           /\ log[i].step.unit = "Std"
           /\ AllTargets(cmd)
           /\ \E j \in 1..(i - 1) :
                 /\ PublishOkAt(j, log[i].step)
                 /\ \E k \in 1..(j - 1) :
                       /\ CargoOkAt(k, log[i].step, 1)
                       /\ \A a \in DOMAIN log[k].argv :
                             log[k].argv[a] # "--all-targets"
           /\ \E a \in DOMAIN log[i].argv : log[i].argv[a] = "--all-targets"

\* The all-targets invocation of the library step has run.
C3_Witness ==
    \E i \in Idx : \E t \in Targets : CargoAt(i, Step("Std", t), 2)

(***************************************************************************)
(* Stamps and sysroot files of the current invocation's builds.            *)
(***************************************************************************)
OnStack(s) == \E k \in 1..Len(stack) : stack[k].step = s

\* The steps that ran, or are running, in this invocation.
Entered == cache \cup {stack[k].step : k \in 1..Len(stack)}

\* Step s ran in this invocation and is no longer running: it returned, or
\* the process stopped hard while it was on the call stack.
Stopped(s) == s \in cache \/ (phase = "failed" /\ OnStack(s))

\* The step's stamp was written by this invocation's build of the step.
FreshStamp(s) ==
    /\ StampOf(s) \in DOMAIN stamps
    /\ stamps[StampOf(s)] = Build(s, 1)

ArtifactName(s) == <<s.unit, s.target>>

\* The directories a step's artifacts are to be published into.
LibDirs(s) ==
    {sysroot_libdir(Compiler, s.target), sysroot_libdir(Compiler, Compiler.host)}

\* Directory d holds the artifact of this invocation's build of step s.
PublishedIn(s, d) ==
    /\ <<d, ArtifactName(s)>> \in DOMAIN sysroot
    /\ sysroot[<<d, ArtifactName(s)>>] = Build(s, 1)

AllPublished(s) == \A d \in LibDirs(s) : PublishedIn(s, d)

NonePublished(s) == \A d \in LibDirs(s) : ~PublishedIn(s, d)

PublishFailed(s) == \E i \in Idx : PublishAt(i, s) /\ ~log[i].ok

FirstCargoFailed(s) == \E i \in Idx : CargoAt(i, s, 1) /\ ~log[i].ok

(***************************************************************************)
(* C4 as stated: a step that has stopped running has either a freshly      *)
(* written stamp and all its artifacts published, or neither; so a failed  *)
(* publish leaves the stamp unwritten.                                     *)
(***************************************************************************)
C4_NoPartialSuccess ==
    \A s \in Entered :
        Stopped(s) =>
           \/ FreshStamp(s) /\ AllPublished(s)
           \/ ~FreshStamp(s) /\ NonePublished(s)

(***************************************************************************)
(* C4 amended: a step that has stopped running has either its stamp        *)
(* freshly written and all its artifacts published, or neither, unless its *)
(* publish failed: then its stamp is freshly written all the same, the     *)
(* compile invocation before the publish having written it, while none or  *)
(* only part of its artifacts are published and the step has not           *)
(* completed.  A step                                                      *)
(* that returned, or whose second compile invocation alone failed, has     *)
(* both; a step whose first compile invocation failed, or that was stopped *)
(* before it invoked its compiler, has neither.                            *)
(***************************************************************************)
SecondCargoFailed(s) == \E i \in Idx : CargoAt(i, s, 2) /\ ~log[i].ok

C4_StampBeforePublish ==
    \A s \in Entered :
        Stopped(s) =>
           /\ ~PublishFailed(s) =>
                 \/ FreshStamp(s) /\ AllPublished(s)
                 \/ ~FreshStamp(s) /\ NonePublished(s)
           /\ PublishFailed(s) =>
                 FreshStamp(s) /\ ~AllPublished(s) /\ ~(s \in cache)
           /\ (s \in cache \/ SecondCargoFailed(s)) =>
                 FreshStamp(s) /\ AllPublished(s)
           /\ (FirstCargoFailed(s) \/ ~Acted(s)) =>
                 ~FreshStamp(s) /\ NonePublished(s)

\* A publish failed half way: the stamp is fresh, one directory has the
\* artifact, the other has not.
C4_Witness ==
    \E s \in Steps :
        /\ phase = "failed"
        /\ PublishFailed(s)
        /\ FreshStamp(s)
        /\ ~AllPublished(s)
        /\ ~NonePublished(s)

(***************************************************************************)
(* C5. A publish comes only after a successful compile invocation of the   *)
(* same step in the same invocation of the program, and publishes from the *)
(* stamp that invocation wrote; after a failed compile invocation no file  *)
(* of the sysroot comes from the failed build.                             *)
(***************************************************************************)
C5_NoPartialPublish ==
    /\ \A i \in Idx :
          log[i].ev = "publish" =>
             \E j \in 1..(i - 1) :
                CargoOkAt(j, log[i].step, 1) /\ log[j].stamp = log[i].stamp
    /\ \A i \in Idx :
          (log[i].ev = "cargo" /\ ~log[i].ok) =>
             \A f \in DOMAIN sysroot :
                sysroot[f] # Build(log[i].step, log[i].pass)

\* A tool's compile invocation failed while the sysroot still holds the
\* tool's artifact of an earlier invocation.
C5_Witness ==
    \E s \in Steps :
        /\ s.unit \in Tools
        /\ FirstCargoFailed(s)
        /\ \E d \in LibDirs(s) :
              /\ <<d, ArtifactName(s)>> \in DOMAIN sysroot
              /\ sysroot[<<d, ArtifactName(s)>>].run < run
        /\ \E i \in Idx : PublishOkAt(i, Step("Rustc", s.target))

(***************************************************************************)
(* C6. A compile invocation that succeeds leaves, at the stamp path of its *)
(* step (the library's test stamp for the all-targets invocation), a stamp *)
(* that records this build; one that fails leaves every stamp as it was:   *)
(* none changed, none new.                                                 *)
(***************************************************************************)
StampPathOf(s, pass) ==
    IF pass = 1 THEN StampOf(s) ELSE libstd_test_stamp(Compiler, s.target)

CargoStep ==
    /\ Len(log') = Len(log) + 1
    /\ log'[Len(log')].ev = "cargo"

C6_StampStep ==
    CargoStep =>
       LET e == log'[Len(log')]
           p == StampPathOf(e.step, e.pass)
       IN IF e.ok
          THEN /\ p \in DOMAIN stamps'
               /\ stamps'[p] = [step |-> e.step, pass |-> e.pass, run |-> run]
               /\ \A q \in DOMAIN stamps : q # p => stamps'[q] = stamps[q]
          ELSE stamps' = stamps

C6_StampCorrect == [][C6_StampStep]_vars

\* A compile invocation has just failed and the step's stamp of an earlier
\* invocation is still there.
C6_Witness ==
    /\ phase = "failed"
    /\ log # <<>>
    /\ log[Len(log)].ev = "cargo"
    /\ ~log[Len(log)].ok
    /\ StampOf(log[Len(log)].step) \in DOMAIN stamps
    /\ stamps[StampOf(log[Len(log)].step)].run < run

(***************************************************************************)
(* C7 as stated: a step run twice with unchanged inputs invokes its        *)
(* compiler once and the second run is a no-op.  So a step requested       *)
(* again within one invocation of the program does not invoke its compiler *)
(* or publish a second time; and a library step that an earlier invocation *)
(* of the program completed under the command of this one neither invokes  *)
(* its compiler nor publishes in this one.                                 *)
(***************************************************************************)
SameActAt(i, j) ==
    /\ log[i].ev \in {"cargo", "publish"}
    /\ log[i].ev = log[j].ev
    /\ log[i].step = log[j].step
    /\ log[i].ev = "cargo" => log[i].pass = log[j].pass

OncePerInvocation ==
    \A i \in Idx : \A j \in Idx : SameActAt(i, j) => i = j

\* An earlier invocation r of the program completed the library step for
\* target t in full-coverage mode: its artifacts are in both directories and
\* its test stamp, which only the second pass of `check --all-targets`
\* writes, and only when it succeeds, is still the one of r.
CompletedEarlier(t) ==
    \E r \in 1..(run - 1) :
       /\ \A d \in LibDirs(Step("Std", t)) :
             /\ <<d, ArtifactName(Step("Std", t))>> \in DOMAIN sysroot
             /\ sysroot[<<d, ArtifactName(Step("Std", t))>>] =
                   [step |-> Step("Std", t), pass |-> 1, run |-> r]
       /\ libstd_test_stamp(Compiler, t) \in DOMAIN stamps
       /\ stamps[libstd_test_stamp(Compiler, t)] =
             [step |-> Step("Std", t), pass |-> 2, run |-> r]

C7_BuiltOnceEver ==
    /\ OncePerInvocation
    /\ \A t \in Targets :
          (AllTargets(cmd) /\ CompletedEarlier(t)) => ~Acted(Step("Std", t))

(***************************************************************************)
(* C7 amended: within one invocation of the program a step, however often  *)
(* and through whichever dependents it is requested, invokes its compiler  *)
(* once per pass and publishes once, and a request for a step that has     *)
(* already completed in this invocation leaves the sysroot and the stamps  *)
(* as they were and runs no step.  (Across invocations the step runs       *)
(* again.)                                                                 *)
(***************************************************************************)
RepeatedRequestStep ==
    /\ Len(log') = Len(log) + 1
    /\ log'[Len(log')].ev = "ensure"
    /\ log'[Len(log')].hit

C7_SingleBuildStep ==
    /\ OncePerInvocation'
    /\ RepeatedRequestStep =>
          /\ log'[Len(log')].step \in cache
          /\ sysroot' = sysroot
          /\ stamps' = stamps
          /\ Len(stack') = Len(stack)
          /\ \A k \in 1..Len(stack) : stack'[k].step = stack[k].step
          /\ cache' = cache

C7_SingleBuild == [][C7_SingleBuildStep]_vars

\* Two tools of one target were requested; the second found the compiler
\* step done and did not run it again.
C7_Witness ==
    \E i \in Idx : \E j \in Idx :
        /\ i < j
        /\ log[i].ev = "ensure" /\ log[j].ev = "ensure"
        /\ log[i].step = log[j].step
        /\ log[i].step.unit = "Rustc"
        /\ log[i].depth = 1 /\ log[j].depth = 1
        /\ ~log[i].hit /\ log[j].hit
        /\ \E k \in Idx : CargoOkAt(k, log[j].step, 1) /\ i < k /\ k < j

(***************************************************************************)
(* C8 as stated: two steps of different targets publish into disjoint      *)
(* sets of directories.                                                    *)
(***************************************************************************)
PublishDirsAt(i) == {log[i].libdir, log[i].hostdir}

DifferentTargetsAt(i, j) ==
    /\ log[i].ev = "publish" /\ log[j].ev = "publish"
    /\ log[i].step.target # log[j].step.target

C8_DisjointDestinations ==
    \A i \in Idx : \A j \in Idx :
        DifferentTargetsAt(i, j) => PublishDirsAt(i) \cap PublishDirsAt(j) = {}

(***************************************************************************)
(* C8 amended: two steps of different targets publish into different       *)
(* target library directories, and both publish into the host's library    *)
(* directory as well, the one directory their destinations share.          *)
(***************************************************************************)
C8_SharedHostDir ==
    \A i \in Idx : \A j \in Idx :
        DifferentTargetsAt(i, j) =>
           /\ log[i].libdir # log[j].libdir
           /\ log[i].hostdir = log[j].hostdir
           /\ PublishDirsAt(i) \cap PublishDirsAt(j) = {log[i].hostdir}

\* Two steps of different targets have published, neither target the host's
\* for one of them.
C8_Witness ==
    \E i \in Idx : \E j \in Idx :
        /\ DifferentTargetsAt(i, j)
        /\ log[i].ok /\ log[j].ok
        /\ log[j].step.target # Compiler.host
        /\ log[j].libdir # log[j].hostdir

(***************************************************************************)
(* C9 as stated: under each verb, a library step that returned has made    *)
(* its second invocation exactly when full coverage was asked for.         *)
(***************************************************************************)
SecondPassRan(s) == \E i \in Idx : CargoAt(i, s, 2)

C9_FullCoverageAnyVerb ==
    \A t \in Targets :
        Step("Std", t) \in cache => (full <=> SecondPassRan(Step("Std", t)))

(***************************************************************************)
(* C9 amended: the library step makes its second invocation exactly when   *)
(* the subcommand is check with all_targets set; under fix and clippy it   *)
(* makes none, full coverage asked for or not, and under no verb does it   *)
(* make one when full coverage is not asked for.                           *)
(***************************************************************************)
C9_FullCoverageCheckOnly ==
    \A t \in Targets :
        /\ Step("Std", t) \in cache =>
              ((full /\ KindOf(cmd) = "Check") <=> SecondPassRan(Step("Std", t)))
        /\ SecondPassRan(Step("Std", t)) => full /\ KindOf(cmd) = "Check"

\* A library step returned under clippy or fix with full coverage asked for,
\* and made no second invocation.
C9_Witness ==
    \E t \in Targets :
        /\ Step("Std", t) \in cache
        /\ full
        /\ KindOf(cmd) \in {"Clippy", "Fix"}
        /\ ~SecondPassRan(Step("Std", t))

(***************************************************************************)
(* C10. Two distinct tools of one target are given different stamp paths;  *)
(* the stamps on disk of one tool step are all at one path, whatever the   *)
(* invocation that wrote them; and no step taken while a tool's request is *)
(* being served changes the stamp or the sysroot files of another tool.    *)
(***************************************************************************)
ToolStampsDiffer ==
    \A i \in Idx : \A j \in Idx :
        /\ log[i].ev = "cargo" /\ log[j].ev = "cargo"
        /\ log[i].step.unit \in Tools /\ log[j].step.unit \in Tools
        /\ log[i].step.target = log[j].step.target
        /\ log[i].step.unit # log[j].step.unit
        => /\ log[i].stamp # log[j].stamp
           /\ \A k \in {i, j} :
                 log[k].stamp
                    = stamp(log[k].step.unit, Compiler, log[k].step.target)

ToolStampAtOwnPath ==
    \A p \in DOMAIN stamps :
        stamps[p].step.unit \in Tools =>
           p = stamp(stamps[p].step.unit, Compiler, stamps[p].step.target)

\* The content of a file, as a set: empty when there is no such file.
FileOf(f) == IF f \in DOMAIN stamps THEN {stamps[f]} ELSE {}

FileOfNext(f) == IF f \in DOMAIN stamps' THEN {stamps'[f]} ELSE {}

SysrootOf(f) == IF f \in DOMAIN sysroot THEN {sysroot[f]} ELSE {}

SysrootOfNext(f) == IF f \in DOMAIN sysroot' THEN {sysroot'[f]} ELSE {}

OtherToolUntouched(b, t) ==
    /\ FileOfNext(stamp(b, Compiler, t)) = FileOf(stamp(b, Compiler, t))
    /\ \A d \in LibDirs(Step(b, t)) :
          SysrootOfNext(<<d, ArtifactName(Step(b, t))>>)
             = SysrootOf(<<d, ArtifactName(Step(b, t))>>)

C10_ToolStep ==
    (stack # <<>> /\ stack[1].step.unit \in Tools) =>
       \A b \in Tools \ {stack[1].step.unit} :
          OtherToolUntouched(b, stack[1].step.target)

C10_ToolIndependence ==
    /\ []ToolStampsDiffer
    /\ []ToolStampAtOwnPath
    /\ [][C10_ToolStep]_vars

\* Tool B of a target is built and published, and then tool A of the same
\* target is: both stamps are on disk, B's artifact is in the sysroot.
C10_Witness ==
    \E a \in Tools : \E b \in Tools : \E t \in Targets :
        /\ a # b
        /\ Step(b, t) \in cache
        /\ Step(a, t) \in cache
        /\ \E i \in Idx : \E j \in Idx :
              i < j /\ PublishOkAt(i, Step(b, t)) /\ CargoOkAt(j, Step(a, t), 1)
        /\ stamp(a, Compiler, t) \in DOMAIN stamps
        /\ stamp(b, Compiler, t) \in DOMAIN stamps
        /\ AllPublished(Step(b, t))

(***************************************************************************)
(* C11. An invocation under check with all_targets set whose first request *)
(* is a tool step, once that step has returned, has made exactly these     *)
(* compile invocations and publishes for it, in this order: the library's  *)
(* first invocation, its publish, its all-targets invocation, the          *)
(* compiler's one invocation, its publish, the tool's one invocation, its  *)
(* publish; and the tool's stamp is on disk, written by this build, under  *)
(* the name ".<lowercased tool name>-check.stamp".                         *)
(***************************************************************************)
IsAct(e) == e.ev \in {"cargo", "publish"}

\* What an event did, without its arguments.
Brief(e) ==
    <<e.ev, e.step.unit, e.step.target, IF e.ev = "cargo" THEN e.pass ELSE 0>>

\* The compile invocations and publishes among the first k events.
ActsUpTo(k) ==
    LET acts == SelectSeq(SubSeq(log, 1, k), IsAct)
    IN [i \in 1..Len(acts) |-> Brief(acts[i])]

ToolChain(u, t) ==
    << <<"cargo", "Std", t, 1>>, <<"publish", "Std", t, 0>>,
       <<"cargo", "Std", t, 2>>,
       <<"cargo", "Rustc", t, 1>>, <<"publish", "Rustc", t, 0>>,
       <<"cargo", u, t, 1>>, <<"publish", u, t, 0>> >>

NamedToolStamp(u, t) ==
    [dir |-> cargo_out(Compiler, "ToolRustc", t),
     file |-> <<".">> \o to_lowercase(stringify(u)) \o CheckStampSuffix]

\* The first request of this invocation was a tool step, under check with
\* all_targets, and the step has returned.
FullToolRequestDone ==
    /\ log # <<>>
    /\ log[1].step.unit \in Tools
    /\ AllTargets(cmd)
    /\ log[1].step \in cache

C11_FullCoverageToolChain ==
    FullToolRequestDone =>
       LET s == log[1].step
           k == CHOOSE i \in Idx : PublishAt(i, s)
       IN /\ \E i \in Idx : PublishAt(i, s)
          /\ ActsUpTo(k) = ToolChain(s.unit, s.target)
          /\ \A i \in 1..k : IsAct(log[i]) => log[i].ok
          /\ NamedToolStamp(s.unit, s.target) \in DOMAIN stamps
          /\ stamps[NamedToolStamp(s.unit, s.target)] = Build(s, 1)

\* Such a request has been served in the first invocation, where nothing
\* was built before.
C11_Witness ==
    /\ FullToolRequestDone
    /\ run = 1
    /\ log[1].step.unit = "Rustdoc"
    /\ Len(log) = 10

(***************************************************************************)
(* C12. Under check without all_targets, a library step that has returned  *)
(* has made exactly one compile invocation, the first-pass one, and no     *)
(* all-targets invocation; the one stamp this invocation of the program    *)
(* wrote for it is the library stamp of its target, and the library test   *)
(* stamp, if there is one, is an earlier invocation's.                     *)
(***************************************************************************)
PlainCheck == cmd.sub = "Check" /\ ~cmd.all_targets

\* The stamp files this invocation's builds of step s wrote.
StampsWrittenFor(s) ==
    {p \in DOMAIN stamps : stamps[p].step = s /\ stamps[p].run = run}

C12_PlainLibraryRequest ==
    \A t \in Targets :
        (PlainCheck /\ Step("Std", t) \in cache) =>
           LET s == Step("Std", t)
           IN /\ \E i \in Idx :
                    /\ CargoOkAt(i, s, 1)
                    /\ \A j \in Idx :
                          (log[j].ev = "cargo" /\ log[j].step = s) => j = i
              /\ StampsWrittenFor(s) = {libstd_stamp(Compiler, t)}
              /\ libstd_test_stamp(Compiler, t) \in DOMAIN stamps =>
                    stamps[libstd_test_stamp(Compiler, t)].run < run

\* The library step was requested alone under plain check and has returned;
\* a test stamp of an earlier all-targets invocation is still on disk.
C12_Witness ==
    \E t \in Targets :
        /\ PlainCheck
        /\ Step("Std", t) \in cache
        /\ log[1].step = Step("Std", t)
        /\ Len(log) = 3
        /\ libstd_test_stamp(Compiler, t) \in DOMAIN stamps

(***************************************************************************)
(* C13. Once a step's publish has completed, and for the rest of the       *)
(* invocation, every artifact of the step's build is in the library        *)
(* directory of the step's target and in the library directory of the      *)
(* host, with the content the build gave it.                               *)
(***************************************************************************)
C13_PublishComplete ==
    \A i \in Idx :
        (log[i].ev = "publish" /\ log[i].ok) =>
           \A a \in Artifacts(Build(log[i].step, 1)) :
           \A d \in LibDirs(log[i].step) :
              /\ <<d, a.name>> \in DOMAIN sysroot
              /\ sysroot[<<d, a.name>>] = a.content

\* The library step of the cross-compiled target has published, and a
\* later step has published after it.
C13_Witness ==
    \E i \in Idx : \E j \in Idx :
        /\ i < j
        /\ PublishOkAt(i, Step("Std", "B"))
        /\ log[j].ev = "publish" /\ log[j].ok
        /\ sysroot_libdir(Compiler, "B") # sysroot_libdir(Compiler, Compiler.host)

(***************************************************************************)
(* C14. Only a publish changes the sysroot; no step removes a file from    *)
(* it; and a step's publish leaves every file that is not the publishing   *)
(* step's own artifact, those other steps published among them, with the   *)
(* content it had.                                                         *)
(***************************************************************************)
PublishStep ==
    /\ Len(log') = Len(log) + 1
    /\ log'[Len(log')].ev = "publish"

C14_SysrootStep ==
    /\ ~PublishStep => sysroot' = sysroot
    /\ DOMAIN sysroot \subseteq DOMAIN sysroot'
    /\ PublishStep =>
          \A f \in DOMAIN sysroot :
             f[2] # ArtifactName(log'[Len(log')].step) =>
                sysroot'[f] = sysroot[f]

C14_SysrootGrows == [][C14_SysrootStep]_vars

\* A step has published into a sysroot that holds another step's artifact
\* of an earlier invocation.
C14_Witness ==
    /\ log # <<>>
    /\ log[Len(log)].ev = "publish"
    /\ log[Len(log)].ok
    /\ \E f \in DOMAIN sysroot :
          /\ f[2] # ArtifactName(log[Len(log)].step)
          /\ sysroot[f].run < run

(***************************************************************************)
(* C15. Provided every compile invocation and every copy returns, a step   *)
(* that was requested (it is on the call stack) is eventually completed    *)
(* (in the engine's cache) or failed (the invocation stopped with the step *)
(* on the stack); and a running request always has a step that can         *)
(* proceed.                                                                *)
(***************************************************************************)
\* The steps make_run accepts or a step ensures: no other is ever called.
Requestable == {s \in Steps : ONLY_HOSTS(s.unit) => s.target \in Hosts}

C15_Terminates ==
    /\ [](Running => ENABLED RunStep)
    /\ \A s \in Requestable : OnStack(s) ~> Stopped(s)

\* A tool request was served to its end, the two units before it included.
C15_Witness ==
    \E s \in Steps :
       /\ s.unit \in Tools
       /\ phase = "idle"
       /\ {s, Step("Rustc", s.target), Step("Std", s.target)} \subseteq cache

(***************************************************************************)
(* C16. As claimed: when full-coverage mode is set, every compile          *)
(* invocation carries a per-crate selector for every crate of its unit's   *)
(* crate set (the library's, the compiler's, and for a tool at least the   *)
(* tool's own crate).  The code does not do this, see C16_SelectorsAsCoded.*)
(***************************************************************************)
\* The crates an argument list selects: each argument that follows a "-p".
RECURSIVE Selectors(_)
Selectors(argv) ==
    IF Len(argv) < 2 THEN <<>>
    ELSE IF Head(argv) = "-p"
         THEN <<argv[2]>> \o Selectors(SubSeq(argv, 3, Len(argv)))
         ELSE Selectors(Tail(argv))

Range(q) == {q[i] : i \in 1..Len(q)}

C16_SelectorsEveryUnit ==
    AllTargets(cmd) =>
       \A i \in Idx :
          log[i].ev = "cargo" =>
             CASE log[i].step.unit = "Std" ->
                     Range(in_tree_crates("test"))
                        \subseteq Range(Selectors(log[i].argv))
               [] log[i].step.unit = "Rustc" ->
                     Range(in_tree_crates("rustc-main"))
                        \subseteq Range(Selectors(log[i].argv))
               [] OTHER -> Selectors(log[i].argv) # <<>>

(***************************************************************************)
(* C16, amended.  When full-coverage mode is set, the compiler's           *)
(* invocation and the library's secondary pass carry the all-targets flag  *)
(* and a per-crate selector for every crate of the unit's crate set; a     *)
(* tool's invocation carries the all-targets flag and no selector; the     *)
(* library's first pass carries neither.                                   *)
(***************************************************************************)
HasAllTargets(argv) == "--all-targets" \in Range(argv)

C16_SelectorsAsCoded ==
    AllTargets(cmd) =>
       \A i \in Idx :
          log[i].ev = "cargo" =>
             CASE log[i].step.unit = "Std" /\ log[i].pass = 1 ->
                     /\ Selectors(log[i].argv) = <<>>
                     /\ ~HasAllTargets(log[i].argv)
               [] log[i].step.unit = "Std" /\ log[i].pass = 2 ->
                     /\ Selectors(log[i].argv) = in_tree_crates("test")
                     /\ HasAllTargets(log[i].argv)
               [] log[i].step.unit = "Rustc" ->
                     /\ Selectors(log[i].argv) = in_tree_crates("rustc-main")
                     /\ HasAllTargets(log[i].argv)
               [] OTHER ->
                     /\ Selectors(log[i].argv) = <<>>
                     /\ HasAllTargets(log[i].argv)

\* Full coverage, and the library (twice), the compiler and a tool have
\* invoked their compiler for one target.
C16_Witness ==
    /\ AllTargets(cmd)
    /\ \E t \in Targets, i, j, k, l \in Idx :
          /\ CargoAt(i, Step("Std", t), 1)
          /\ CargoAt(j, Step("Std", t), 2)
          /\ CargoAt(k, Step("Rustc", t), 1)
          /\ CargoAt(l, Step("Clippy", t), 1)

(***************************************************************************)
(* C17. Every secondary pass of the library follows a first pass of the    *)
(* same step and is that invocation (sub-command, arguments, trailing      *)
(* arguments) with the all-targets flag and then one "-p <crate>" pair     *)
(* per crate appended; the crates selected are in_tree_crates("test"),     *)
(* element for element and in order.                                       *)
(***************************************************************************)
RECURSIVE SelectorArgs(_)
SelectorArgs(crates) ==
    IF crates = <<>> THEN <<>>
    ELSE <<"-p", Head(crates)>> \o SelectorArgs(Tail(crates))

C17_SecondPassInvocation ==
    \A j \in Idx :
       (log[j].ev = "cargo" /\ log[j].step.unit = "Std" /\ log[j].pass = 2) =>
          /\ \E i \in 1..(j - 1) :
                /\ CargoOkAt(i, log[j].step, 1)
                /\ log[j].sub = log[i].sub
                /\ log[j].tail = log[i].tail
                /\ log[j].argv = log[i].argv \o <<"--all-targets">>
                                   \o SelectorArgs(in_tree_crates("test"))
          /\ Selectors(log[j].argv) = in_tree_crates("test")
          /\ Len(log[j].argv) =
                Len(config.std_args) + 1 + 2 * Len(in_tree_crates("test"))

\* The secondary pass of the library for target B has just been invoked
\* and failed.
C17_Witness ==
    /\ log # <<>>
    /\ CargoAt(Len(log), Step("Std", "B"), 2)
    /\ ~log[Len(log)].ok

(***************************************************************************)
(* C18. In full-coverage mode, for every target X: a compile invocation of *)
(* the compiler unit for X comes after a successful secondary pass of the  *)
(* library for X in the same invocation of the program; and once the       *)
(* secondary pass for X has failed, neither the compiler unit nor any tool *)
(* unit for X invokes its compiler or publishes, while the library's       *)
(* first-pass artifacts are in both of its sysroot directories.            *)
(***************************************************************************)
SecondPassFailed(t) ==
    \E j \in Idx : CargoAt(j, Step("Std", t), 2) /\ ~log[j].ok

C18_SecondPassGates ==
    AllTargets(cmd) =>
       \A t \in Targets :
          /\ \A k \in Idx :
                CargoAt(k, Step("Rustc", t), 1) =>
                   \E j \in 1..(k - 1) : CargoOkAt(j, Step("Std", t), 2)
          /\ SecondPassFailed(t) =>
                /\ \A d \in Dependents(Step("Std", t)) : ~Acted(d)
                /\ \E i \in Idx : PublishOkAt(i, Step("Std", t))
                /\ AllPublished(Step("Std", t))

\* A tool was requested in full-coverage mode, and the library's secondary
\* pass, reached through the compiler unit, failed.
C18_Witness ==
    \E t \in Targets :
       /\ AllTargets(cmd)
       /\ SecondPassFailed(t)
       /\ Len(stack) = 3
       /\ stack[1].step.unit \in Tools
       /\ stack[2].step = Step("Rustc", t)

(***************************************************************************)
(* C19. A step of the program that is a secondary pass of the library for  *)
(* target X is given a stamp path that is not the library stamp's, the     *)
(* compiler stamp's or a tool stamp's path for X; it leaves the sysroot    *)
(* and every stamp file but its own unchanged, the library stamp of X      *)
(* among them; it writes its own stamp if and only if it succeeded; and    *)
(* no publish is ever given the path of a library-test stamp.              *)
(***************************************************************************)
SecondPassStep ==
    /\ Len(log') = Len(log) + 1
    /\ log'[Len(log')].ev = "cargo"
    /\ log'[Len(log')].step.unit = "Std"
    /\ log'[Len(log')].pass = 2

OtherStampsOf(t) ==
    {libstd_stamp(Compiler, t), librustc_stamp(Compiler, t)}
       \cup {stamp(u, Compiler, t) : u \in Tools}

C19_SecondPassStep ==
    /\ SecondPassStep =>
          LET e == log'[Len(log')]
          IN /\ e.stamp \notin OtherStampsOf(e.step.target)
             /\ sysroot' = sysroot
             /\ FileOfNext(libstd_stamp(Compiler, e.step.target))
                   = FileOf(libstd_stamp(Compiler, e.step.target))
             /\ \A f \in (DOMAIN stamps \cup DOMAIN stamps') \ {e.stamp} :
                   FileOfNext(f) = FileOf(f)
             /\ FileOfNext(e.stamp) =
                   IF e.ok THEN {Build(e.step, 2)} ELSE FileOf(e.stamp)
    /\ PublishStep =>
          \A t \in Targets :
             log'[Len(log')].stamp # libstd_test_stamp(Compiler, t)

C19_SecondPassFrame == [][C19_SecondPassStep]_vars

\* The secondary pass has just succeeded: its stamp holds the second
\* build, the library stamp and the sysroot hold the first.
C19_Witness ==
    \E t \in Targets :
       /\ log # <<>>
       /\ CargoOkAt(Len(log), Step("Std", t), 2)
       /\ FileOf(libstd_test_stamp(Compiler, t)) = {Build(Step("Std", t), 2)}
       /\ FileOf(libstd_stamp(Compiler, t)) = {Build(Step("Std", t), 1)}
       /\ AllPublished(Step("Std", t))

====
